---- MODULE Spec2Model ----
(***************************************************************************)
(* Laser level surface-mapping tool: the main window (src/src/main.py),    *)
(* the cyclic measurement dialog (src/src/cycle.py) and the acquisition    *)
(* core they drive.  The core (src.Core) is not part of the sources; its   *)
(* session state machine is modelled from section 4.3 of the design.       *)
(***************************************************************************)
EXTENDS Integers, Sequences, FiniteSets, TLC

\* ---------------------------------------------------------------- bounds
MaxSamples == 2        \* longest Sample sequence explored
MaxSubsamples == 2     \* largest configured sub-sample count explored
MaxReading == 1        \* readings are drawn from 1..MaxReading
MaxQueue == 2          \* undelivered notifications explored
MaxOpen == 2           \* times the socket server dialog is opened
MaxCycleTime == 6      \* largest cycle time set by the user
MaxDuration == 16      \* largest total duration set by the user
MaxWideReading == 2    \* readings of the remote listener's sessions
MaxSlider == 2         \* zero point slider positions explored, either side
MaxPlotAvg == 3        \* largest simulated average, in tenths of a mm
MaxWideSubsamples == 5 \* sub-sample counts large enough to be trimmed
MaxPlateRows == 2      \* rows of a new plate, rows selected for import
MaxPlateCols == 1      \* columns of a new plate
MaxStored == 2         \* entries in the surface map before an import

\* ------------------------------------------------------ program constants
SpinMin == 5           \* minimum of both scheduler spin boxes
SpinMax == 3600        \* maximum of both scheduler spin boxes
DefaultCycleTime == 10
DefaultDuration == 60
DefaultOutliers == 30
MaxOutliers == 99      \* maximum of the outlier removal spin box
PlotCells == 16        \* cells of the candlestick table, 4 rows of 4
DefaultPlate == 4      \* rows and columns of the surface map as constructed
NoRow == -1            \* selected_row is None
NoValue == -1000000    \* collect_measurement_data's None

Readings == 1..MaxReading
NoSignal == 0          \* the frame analyser's "no signal" sentinel

\* ---------------------------------------------------------------- state
VARIABLES
    mw,      \* MainWindow: buttons, routing flags, sample table, socket wiring
    core,    \* Core: Sample sequence, ZeroReference, acquisition session
    cyc,     \* CyclicMeasurementSetupWindow: spin boxes, timer, counter
    log,     \* what the last step did: handler, commands issued, outcomes
    hist,    \* history: values remembered from earlier steps
    viz,     \* candlestick table: zero point slider, redraw position, plot
    dlg      \* SurfaceMappingDialog: plate, selected row, stores, data table

vars == <<mw, core, cyc, log, hist, viz, dlg>>

\* The world a handler runs in; handlers are operators from world to world.
W == [mw |-> mw, core |-> core, cyc |-> cyc, log |-> log, viz |-> viz,
      dlg |-> dlg]

\* issued: the commands the step issued, results: what the core and the
\* dialogs answered, sent: outbound remote messages, triggers: scheduler
\* triggers emitted, arg: the reading fed, kept: the readings averaged by
\* the session that committed, delivered: the notification handled, modes:
\* the setting_zero argument of every start command.
NothingDelivered == [kind |-> "none", n |-> 0, total |-> 0]

EmptyLog == [arg |-> 0, issued |-> <<>>, results |-> <<>>, sent |-> <<>>,
             triggers |-> 0, kept |-> 0, delivered |-> NothingDelivered,
             modes |-> <<>>]

Begin == [W EXCEPT !.log = EmptyLog]

\* ------------------------------------------------------------- helpers
Max(a, b) == IF a >= b THEN a ELSE b
Min(a, b) == IF a <= b THEN a ELSE b

RECURSIVE SumSeq(_)
SumSeq(s) == IF s = <<>> THEN 0 ELSE Head(s) + SumSeq(Tail(s))

RECURSIVE InsertSorted(_, _)
InsertSorted(x, s) ==
    IF s = <<>> THEN <<x>>
    ELSE IF x <= Head(s) THEN <<x>> \o s
    ELSE <<Head(s)>> \o InsertSorted(x, Tail(s))

RECURSIVE SortAsc(_)
SortAsc(s) == IF s = <<>> THEN <<>> ELSE InsertSorted(Head(s), SortAsc(Tail(s)))

RemoveAt(s, i) == [j \in 1..(Len(s) - 1) |-> IF j < i THEN s[j] ELSE s[j + 1]]

\* --------------------------------------------------- Core (section 4.3)
\* Variant: the trim count without the clamp.
TrimCount_noclamp(n, pct) == (n * pct) \div 100

\* k readings are dropped at each end; k is clamped so one reading survives.
TrimCount(n, pct) == Min((n * pct) \div 100, (n - 1) \div 2)

Trimmed(buf, pct) ==
    LET k == TrimCount(Len(buf), pct)
    IN  IF Len(buf) - k < k + 1 THEN <<>>
        ELSE SubSeq(SortAsc(buf), k + 1, Len(buf) - k)

\* Mean in the base unit, rounded down to the unit's resolution.
SessionResult(buf, pct) ==
    LET t == Trimmed(buf, pct)
    IN  IF t = <<>> THEN 0 ELSE SumSeq(t) \div Len(t)

\* Variant: a start that is never rejected.
start_sample_norej(w, zero, replacing_sample, replacing_sample_index) ==
    [w EXCEPT !.core.state = "Accumulating",
              !.core.setting_zero_sample = zero,
              !.core.replacing_sample = replacing_sample,
              !.core.replacing_sample_index = replacing_sample_index,
              !.core.buffer = <<>>,
              !.core.target_count = w.core.subsamples,
              !.core.active = w.core.active + 1,
              !.log.modes = Append(w.log.modes, zero),
              !.log.results = Append(w.log.results, "started")]

\* start(mode, replace_index): rejected while a session is Accumulating.
start_sample(w, zero, replacing_sample, replacing_sample_index) ==
    IF w.core.state = "Accumulating"
    THEN [w EXCEPT !.log.modes = Append(w.log.modes, zero),
                   !.log.results = Append(w.log.results, "AcquisitionConflict")]
    ELSE [w EXCEPT !.log.modes = Append(w.log.modes, zero),
                   !.core.state = "Accumulating",
                   !.core.setting_zero_sample = zero,
                   !.core.replacing_sample = replacing_sample,
                   !.core.replacing_sample_index = replacing_sample_index,
                   !.core.buffer = <<>>,
                   !.core.target_count = w.core.subsamples,
                   !.core.active = w.core.active + 1,
                   !.log.results = Append(w.log.results, "started")]

\* feed(raw_centroid): the sentinel is dropped; a numeric reading is appended
\* zero-adjusted (a zeroing session measures the baseline itself) and a
\* progress notification (len(buffer), target_count) is queued.  The reading
\* that fills the buffer finalizes and commits the session.
Adjusted(c, r) == IF c.setting_zero_sample THEN r ELSE r - c.zero

\* Commit: Zeroing sets the ZeroReference and clears the Sample sequence;
\* Sampling appends, or overwrites the sample at replace_index.
Committed(c, result) ==
    IF c.setting_zero_sample
    THEN [c EXCEPT !.zero = result, !.zero_set = TRUE, !.samples = <<>>]
    ELSE IF c.replacing_sample
    THEN IF c.replacing_sample_index \in 0..(Len(c.samples) - 1)
         THEN [c EXCEPT !.samples[c.replacing_sample_index + 1] = result]
         ELSE c
    ELSE [c EXCEPT !.samples = Append(c.samples, result)]

sample_in(w, r) ==
    IF w.core.state # "Accumulating" \/ r = NoSignal
    THEN w
    ELSE LET buf == Append(w.core.buffer, Adjusted(w.core, r))
             prog == [kind |-> "progress", n |-> Len(buf),
                      total |-> w.core.target_count]
             c1 == [w.core EXCEPT !.buffer = buf,
                                  !.queue = Append(w.core.queue, prog)]
         IN  IF Len(buf) < w.core.target_count
             THEN [w EXCEPT !.core = c1]
             ELSE LET c2 == Committed(c1, SessionResult(buf, c1.outliers))
                  IN  [w EXCEPT
                         !.core = [c2 EXCEPT
                                     !.state = "Idle",
                                     !.buffer = <<>>,
                                     !.active = c1.active - 1,
                                     !.queue = Append(c1.queue,
                                                 [kind |-> "complete", n |-> 0,
                                                  total |-> 0])],
                         !.log.results = Append(w.log.results, "committed"),
                         !.log.kept = Len(Trimmed(buf, c1.outliers))]

\* Camera lost mid-session: AcquisitionError, buffer discarded, back to Idle.
set_camera(w) ==
    IF w.core.state = "Accumulating"
    THEN [w EXCEPT !.core.state = "Idle",
                   !.core.buffer = <<>>,
                   !.core.active = w.core.active - 1,
                   !.log.results = Append(w.log.results, "AcquisitionError")]
    ELSE w

\* delete_samples(index) removes one sample, delete_samples() all of them.
delete_samples(w, index) ==
    IF index = -1
    THEN [w EXCEPT !.core.samples = <<>>]
    ELSE IF index \in 0..(Len(w.core.samples) - 1)
    THEN [w EXCEPT !.core.samples = RemoveAt(w.core.samples, index + 1)]
    ELSE w

\* ------------------------------------------------------------ MainWindow
update_table(w) ==
    LET n == Len(w.core.samples)
    IN  [w EXCEPT !.mw.table = w.core.samples,
                  !.mw.currentRow =
                      IF n = 0 THEN -1
                      ELSE IF w.mw.table_selected_index \in 0..(n - 1)
                      THEN w.mw.table_selected_index
                      ELSE 0]

\* Variant: Take Sample is not enabled again.
finished_subsample_nosample(w) ==
    LET w1 == [w EXCEPT !.mw.zero_btn = TRUE,
                        !.mw.replace_btn = TRUE,
                        !.mw.delete_btn = TRUE]
    IN  IF w1.mw.setting_zero
        THEN [w1 EXCEPT !.mw.setting_zero = FALSE]
        ELSE IF w1.mw.replace_sample
        THEN [w1 EXCEPT !.mw.replace_sample = FALSE]
        ELSE w1

\* Variant: the replace flag is left as it is.
finished_subsample_keepflag(w) ==
    LET w1 == [w EXCEPT !.mw.zero_btn = TRUE,
                        !.mw.sample_btn = TRUE,
                        !.mw.replace_btn = TRUE,
                        !.mw.delete_btn = TRUE]
    IN  IF w1.mw.setting_zero
        THEN [w1 EXCEPT !.mw.setting_zero = FALSE]
        ELSE w1

finished_subsample(w) ==
    LET w1 == [w EXCEPT !.mw.zero_btn = TRUE,
                        !.mw.sample_btn = TRUE,
                        !.mw.replace_btn = TRUE,
                        !.mw.delete_btn = TRUE]
    IN  IF w1.mw.setting_zero
        THEN [w1 EXCEPT !.mw.setting_zero = FALSE]
        ELSE IF w1.mw.replace_sample
        THEN [w1 EXCEPT !.mw.replace_sample = FALSE]
        ELSE w1

socket_server_sample_complete(w) ==
    LET msg == IF w.core.setting_zero_sample
               THEN <<"ZERO_COMPLETE", 0>>
               ELSE IF w.core.samples = <<>>
               THEN <<"IndexError", 0>>
               ELSE <<"SAMPLE", w.core.samples[Len(w.core.samples)]>>
    IN  [w EXCEPT !.log.sent = Append(w.log.sent, msg)]

\* Variant: Zero without the setting_zero flag and without the clear.
zero_btn_cmd_noclear(w) ==
    LET w1 == [w EXCEPT !.mw.table_selected_index = 0,
                        !.mw.zero_btn = FALSE,
                        !.mw.sample_btn = FALSE,
                        !.mw.replace_btn = FALSE,
                        !.log.issued = Append(w.log.issued, "zero")]
    IN  start_sample(w1, w1.mw.setting_zero, FALSE, 0)

zero_btn_cmd(w) ==
    LET w1 == [w EXCEPT !.mw.table_selected_index = 0,
                        !.mw.setting_zero = TRUE,
                        !.mw.replace_sample = FALSE,
                        !.mw.zero_btn = FALSE,
                        !.mw.sample_btn = FALSE,
                        !.mw.replace_btn = FALSE,
                        !.core.samples = <<>>,
                        !.log.issued = Append(w.log.issued, "zero")]
    IN  start_sample(w1, w1.mw.setting_zero, FALSE, 0)

sample_btn_cmd(w) ==
    LET w1 == [w EXCEPT !.mw.table_selected_index = w.mw.currentRow,
                        !.mw.zero_btn = FALSE,
                        !.mw.sample_btn = FALSE,
                        !.mw.replace_btn = FALSE,
                        !.log.issued = Append(w.log.issued, "sample")]
    IN  start_sample(w1, w1.mw.setting_zero, FALSE, 0)

replace_btn_cmd(w) ==
    LET w1 == [w EXCEPT !.mw.table_selected_index = w.mw.currentRow,
                        !.mw.zero_btn = FALSE,
                        !.mw.sample_btn = FALSE,
                        !.mw.replace_btn = FALSE,
                        !.mw.replace_sample = TRUE,
                        !.log.issued = Append(w.log.issued, "replace")]
    IN  start_sample(w1, w1.mw.setting_zero, TRUE, w.mw.currentRow)

\* Variant: Delete Selected removes the row remembered by the last command.
delete_btn_cmd_remembered(w, choice) ==
    IF Len(w.mw.table) = 0
    THEN [w EXCEPT !.log.results = Append(w.log.results, "NoSamples")]
    ELSE LET w1 == [w EXCEPT !.log.results = w.log.results \o
                                               <<"deleted", choice>>]
         IN  IF choice = "selected" /\ w.mw.currentRow >= 0
             THEN update_table(delete_samples(w1, w.mw.table_selected_index))
             ELSE IF choice = "all"
             THEN update_table(delete_samples(w1, -1))
             ELSE [w EXCEPT !.log.results = w.log.results \o
                                                <<"offered", choice>>]

\* choice: "selected", "all" or "cancel", the button of the message box.
delete_btn_cmd(w, choice) ==
    IF Len(w.mw.table) = 0
    THEN [w EXCEPT !.log.results = Append(w.log.results, "NoSamples")]
    ELSE LET w1 == [w EXCEPT !.log.results = w.log.results \o
                                               <<"deleted", choice>>]
         IN  IF choice = "selected" /\ w.mw.currentRow >= 0
             THEN update_table(delete_samples(w1, w.mw.currentRow))
             ELSE IF choice = "all"
             THEN update_table(delete_samples(w1, -1))
             ELSE [w EXCEPT !.log.results = w.log.results \o
                                                <<"offered", choice>>]

reset_sample_table(w, confirm) ==
    IF confirm
    THEN [w EXCEPT !.mw.table = <<>>, !.mw.currentRow = -1]
    ELSE w

\* Variant: the handlers called directly instead of through the buttons.
on_cyclic_measurement_direct(w) ==
    IF w.mw.sample_btn THEN sample_btn_cmd(w) ELSE zero_btn_cmd(w)

\* sample_btn.click() / zero_btn.click(): QAbstractButton.click() does
\* nothing when the button is disabled.
on_cyclic_measurement(w) ==
    IF w.mw.sample_btn
    THEN sample_btn_cmd(w)
    ELSE IF w.mw.zero_btn THEN zero_btn_cmd(w) ELSE w

\* socket_server_action connects the dialog's signals once more each time.
socket_server_action(w) == [w EXCEPT !.mw.conns = w.mw.conns + 1]

RECURSIVE Repeat(_, _, _)
Repeat(n, kind, w) ==
    IF n = 0 THEN w
    ELSE LET w1 == IF kind = "TAKE_SAMPLE" THEN sample_btn_cmd(w)
                   ELSE IF kind = "ZERO" THEN zero_btn_cmd(w)
                   ELSE socket_server_sample_complete(w)
         IN  Repeat(n - 1, kind, w1)

\* One inbound remote command reaches every connected slot.
remote_command(w, kind) == Repeat(w.mw.conns, kind, w)

\* OnSampleComplete: the slots run in the order they were connected.
on_sample_complete(w) ==
    Repeat(w.mw.conns, "COMPLETE", update_table(finished_subsample(w)))

\* ------------------------------------------- CyclicMeasurementSetupWindow
\* Variant: stop_cycle without cycle_timer.stop().
stop_cycle_keeps_timer(w) ==
    [w EXCEPT !.cyc.pb_stop = FALSE,
              !.cyc.pb_start = TRUE,
              !.log.results = Append(w.log.results, "stop_cycle")]

stop_cycle(w) ==
    [w EXCEPT !.cyc.timer_active = FALSE,
              !.cyc.pb_stop = FALSE,
              !.cyc.pb_start = TRUE,
              !.log.results = Append(w.log.results, "stop_cycle")]

\* Variant: start_cycle without the reset of elapsed_cycles.
start_cycle_noreset(w) ==
    [w EXCEPT !.cyc.interval_ms = 1000 * w.cyc.cycle_time,
              !.cyc.timer_active = TRUE,
              !.cyc.pb_start = FALSE,
              !.cyc.pb_stop = TRUE,
              !.log.results = Append(w.log.results, "start_cycle")]

start_cycle(w) ==
    [w EXCEPT !.cyc.elapsed_cycles = 0,
              !.cyc.interval_ms = 1000 * w.cyc.cycle_time,
              !.cyc.timer_active = TRUE,
              !.cyc.pb_start = FALSE,
              !.cyc.pb_stop = TRUE,
              !.log.results = Append(w.log.results, "start_cycle")]

\* Variant: the comparison with max_cycles made strict.
on_timer_tick_strict(w) ==
    LET w1 == on_cyclic_measurement([w EXCEPT !.log.triggers = w.log.triggers + 1])
        w2 == [w1 EXCEPT !.cyc.elapsed_cycles = w1.cyc.elapsed_cycles + 1]
        max_cycles == w2.cyc.total_duration \div w2.cyc.cycle_time
    IN  IF w2.cyc.elapsed_cycles > max_cycles THEN stop_cycle(w2) ELSE w2

on_timer_tick(w) ==
    LET w1 == on_cyclic_measurement([w EXCEPT !.log.triggers = w.log.triggers + 1])
        w2 == [w1 EXCEPT !.cyc.elapsed_cycles = w1.cyc.elapsed_cycles + 1]
        max_cycles == w2.cyc.total_duration \div w2.cyc.cycle_time
    IN  IF w2.cyc.elapsed_cycles >= max_cycles THEN stop_cycle(w2) ELSE w2

\* ------------------------------------- candlestick table (tests/)
\* Lengths are in tenths of a millimetre, the step of the zero point slider.
\* Variant: shim without the clamp at zero.
create_candlestick_plot_noclamp(row, col, zero_point, avg_value, lo, hi) ==
    LET min_value == avg_value - lo
        max_value == avg_value + hi
    IN  [row |-> row, col |-> col, zero_point |-> zero_point,
         avg_value |-> avg_value, min_value |-> min_value,
         max_value |-> max_value,
         avg_shim |-> zero_point - avg_value,
         min_shim |-> zero_point - min_value,
         max_shim |-> zero_point - max_value,
         avg_scrape |-> Max(0, avg_value - zero_point),
         min_scrape |-> Max(0, min_value - zero_point),
         max_scrape |-> Max(0, max_value - zero_point)]

\* avg_value, lo and hi are the three np.random.uniform draws.
create_candlestick_plot(row, col, zero_point, avg_value, lo, hi) ==
    LET min_value == avg_value - lo
        max_value == avg_value + hi
    IN  [row |-> row, col |-> col, zero_point |-> zero_point,
         avg_value |-> avg_value, min_value |-> min_value,
         max_value |-> max_value,
         avg_shim |-> Max(0, zero_point - avg_value),
         min_shim |-> Max(0, zero_point - min_value),
         max_shim |-> Max(0, zero_point - max_value),
         avg_scrape |-> Max(0, avg_value - zero_point),
         min_scrape |-> Max(0, min_value - zero_point),
         max_scrape |-> Max(0, max_value - zero_point)]

\* The table before its first cell is drawn: the constructor's
\* populate_table_with_plots is the first pass of the loop.
NoPlot == [create_candlestick_plot(0, 0, 0, 0, 0, 0) EXCEPT !.row = -1]

\* get_zero_point: the slider position is the zero point in tenths.
get_zero_point(w) == w.viz.slider

\* One pass of the loop over the cells, in update_zero_point and in
\* populate_table_with_plots: the cell at position pos gets a new plot.
plot_next_cell(w, avg_value, lo, hi) ==
    [w EXCEPT !.viz.plot = create_candlestick_plot(
                               w.viz.pos \div 4, w.viz.pos % 4,
                               get_zero_point(w), avg_value, lo, hi),
              !.viz.pos = w.viz.pos + 1]

\* update_zero_point starts the loop over again with the new zero point.
update_zero_point(w, value) ==
    [w EXCEPT !.viz.slider = value, !.viz.pos = 0]

\* --------------------------------------------------------------- history
\* -------------------------------------------------- SurfaceMappingDialog
\* A store maps the cell keys it holds to nine lists; a key that was never
\* written is not in its domain.
NoCells == [key \in {} |-> 0]

EmptyCell == [avg |-> <<>>, min |-> <<>>, max |-> <<>>,
              shim_avg |-> <<>>, shim_min |-> <<>>, shim_max |-> <<>>,
              scrape_avg |-> <<>>, scrape_min |-> <<>>, scrape_max |-> <<>>]

Put(d, key, v) ==
    [k \in (DOMAIN d) \cup {key} |-> IF k = key THEN v ELSE d[k]]

\* Flatness of the Sample sequence: least-squares line over the sample
\* index, linYError = y - y_fit.  The error is kept exact by scaling it
\* with n * (n * Sxx - Sx * Sx), which is positive for n >= 2; a single
\* sample lies on its own line.
SumTo(f(_), n) == SumSeq([i \in 1..n |-> f(i)])

linYError(samples, i) ==
    LET n == Len(samples)
        X(j) == j - 1
        Y(j) == samples[j]
        XY(j) == X(j) * Y(j)
        XX(j) == X(j) * X(j)
        Sx == SumTo(X, n)
        Sy == SumTo(Y, n)
        D == n * SumTo(XX, n) - Sx * Sx
        N == n * SumTo(XY, n) - Sx * Sy
    IN  IF n < 2 THEN 0
        ELSE n * D * Y(i) - n * N * X(i) - D * Sy + N * Sx

sample_shim(samples, i) == Max(0, 0 - linYError(samples, i))

sample_scrape(samples, i) == Max(0, linYError(samples, i))

\* A sample table item shows its value followed by the unit;
\* extract_numeric_value reads the first signed number of the text.
TableUnit(value) == [minus |-> value < 0,
                     digits |-> IF value < 0 THEN 0 - value ELSE value,
                     units |-> "um"]

extract_numeric_value(text) ==
    IF text.minus THEN 0 - text.digits ELSE text.digits

Nothing == [measured_avg |-> NoValue, min_value |-> NoValue,
            max_value |-> NoValue, shim |-> NoValue, scrape |-> NoValue]

collect_measurement_data(w, row_index) ==
    IF row_index >= Len(w.mw.table)
    THEN Nothing
    ELSE LET t == w.mw.table
             measured == extract_numeric_value(TableUnit(t[row_index + 1]))
         IN  [measured_avg |-> measured, min_value |-> measured,
              max_value |-> measured,
              shim |-> extract_numeric_value(
                           TableUnit(sample_shim(t, row_index + 1))),
              scrape |-> extract_numeric_value(
                             TableUnit(sample_scrape(t, row_index + 1)))]

\* Appends one import to the nine lists of a cell.
Appended(store, key, d) ==
    LET c == IF key \in DOMAIN store THEN store[key] ELSE EmptyCell
    IN  Put(store, key,
            [avg |-> Append(c.avg, d.measured_avg),
             min |-> Append(c.min, d.min_value),
             max |-> Append(c.max, d.max_value),
             shim_avg |-> Append(c.shim_avg, d.shim),
             shim_min |-> Append(c.shim_min, d.shim),
             shim_max |-> Append(c.shim_max, d.shim),
             scrape_avg |-> Append(c.scrape_avg, d.scrape),
             scrape_min |-> Append(c.scrape_min, d.scrape),
             scrape_max |-> Append(c.scrape_max, d.scrape)])

\* "Avg: {mean:.2f} ({count})": the mean in hundredths, rounded.
CellText(avgs) ==
    [hundredths |-> (200 * SumSeq(avgs) + Len(avgs)) \div (2 * Len(avgs)),
     count |-> Len(avgs)]

InTable(g, key) == key[1] \in 0..(g.rows - 1) /\ key[2] \in 0..(g.cols - 1)

update_numerical_table(w, row, col, d) ==
    LET key == <<row, col>>
        store == Appended(w.dlg.measurement_data, key, d)
    IN  [w EXCEPT !.dlg.measurement_data = store,
                  !.dlg.data_table =
                      IF InTable(w.dlg, key)
                      THEN Put(w.dlg.data_table, key, CellText(store[key].avg))
                      ELSE w.dlg.data_table]

handle_measurement_import(w, row, col, d) ==
    [w EXCEPT !.dlg.visual = Appended(w.dlg.visual, <<row, col>>, d)]

\* Variant: every sample is transferred, whatever the plate's width.
sample_count_all(w) == Len(w.mw.table)

sample_count(w) == Min(Len(w.mw.table), w.dlg.cols)

RECURSIVE ImportFrom(_, _, _)
ImportFrom(w, sample_index, count) ==
    IF sample_index >= count
    THEN w
    ELSE LET d == collect_measurement_data(w, sample_index)
             row == w.dlg.selected_row
         IN  IF d.measured_avg = NoValue
             THEN ImportFrom(w, sample_index + 1, count)
             ELSE ImportFrom(
                      handle_measurement_import(
                          update_numerical_table(w, row, sample_index, d),
                          row, sample_index, d),
                      sample_index + 1, count)

\* Variant: without a selected row the first row is taken.
import_computed_measurement_row0(w) ==
    ImportFrom([w EXCEPT !.dlg.selected_row = Max(0, w.dlg.selected_row),
                         !.log.results = Append(w.log.results, "import")],
               0, sample_count(w))

import_computed_measurement(w) ==
    IF w.dlg.selected_row = NoRow
    THEN [w EXCEPT !.log.results = w.log.results \o <<"import", "warning">>]
    ELSE ImportFrom([w EXCEPT !.log.results = Append(w.log.results, "import")],
                    0, sample_count(w))

\* The row selected in the data table, NoRow when the selection is empty.
selectedIndexes(g) ==
    IF g.selected_row \in 0..(g.rows - 1) THEN g.selected_row ELSE NoRow

\* An item with empty text.
BlankText == [hundredths |-> 0, count |-> 0]

RECURSIVE ClearFrom(_, _, _)
ClearFrom(g, row, col) ==
    IF col >= g.cols
    THEN g
    ELSE LET key == <<row, col>>
         IN  ClearFrom(
                 [g EXCEPT !.visual =
                               [k \in (DOMAIN g.visual) \ {key} |-> g.visual[k]],
                           !.data_table = Put(g.data_table, key, BlankText)],
                 row, col + 1)

clear_selected_row(w, confirm) ==
    LET row == selectedIndexes(w.dlg)
    IN  IF row = NoRow
        THEN [w EXCEPT !.log.results = w.log.results \o <<"clear", "warning">>]
        ELSE IF ~confirm
        THEN [w EXCEPT !.log.results = w.log.results \o <<"clear", "declined">>]
        ELSE [w EXCEPT !.dlg = ClearFrom(w.dlg, row, 0),
                       !.log.results = w.log.results \o <<"clear", "cleared">>]

update_selected_row(w, r) == [w EXCEPT !.dlg.selected_row = r]

\* create_new_plate's on_ok: without a name nothing changes; with one the
\* data table is resized, which drops the items outside the new size.
create_new_plate(w, named, new_rows, new_cols) ==
    IF ~named
    THEN [w EXCEPT !.log.results = Append(w.log.results, "warning")]
    ELSE LET g == [w.dlg EXCEPT !.rows = new_rows, !.cols = new_cols]
             kept == {key \in DOMAIN w.dlg.data_table : InTable(g, key)}
         IN  [w EXCEPT !.dlg = [g EXCEPT !.data_table =
                                  [key \in kept |-> w.dlg.data_table[key]]],
                       !.log.results = Append(w.log.results, "new_plate")]

Has(l, x) == \E i \in 1..Len(l.results) : l.results[i] = x

StartedAt(l) == {i \in 1..Len(l.results) : l.results[i] = "started"}

NoSession == [samplesBefore |-> <<>>, zeroBefore |-> <<FALSE, 0>>,
              startedBy |-> "none"]

\* The session's history is kept from the command that started it to the
\* step that ended it.
NextSession(w2) ==
    LET l == w2.log
        last == CHOOSE i \in StartedAt(l) : \A j \in StartedAt(l) : j <= i
    IN  IF StartedAt(l) # {}
        THEN [samplesBefore |-> core.samples,
              zeroBefore |-> <<core.zero_set, core.zero>>,
              startedBy |-> l.issued[last]]
        ELSE IF core.state = "Accumulating" THEN hist.session
        ELSE NoSession

NextRun(w2) ==
    LET l == w2.log
    IN  IF Has(l, "start_cycle")
        THEN [triggers |-> 0,
              max |-> cyc.total_duration \div cyc.cycle_time,
              clean |-> TRUE, stopped |-> "running"]
        ELSE [triggers |-> hist.run.triggers + l.triggers,
              max |-> hist.run.max,
              clean |-> /\ hist.run.clean
                        /\ ~Has(l, "edited")
                        /\ ~(Has(l, "stop_cycle") /\ l.triggers = 0),
              stopped |-> IF ~Has(l, "stop_cycle") THEN hist.run.stopped
                          ELSE IF l.triggers = 0 THEN "manual" ELSE "auto"]

\* The step handled a completion notification (OnSampleComplete's slots ran).
CompletionHandled(c, c2) ==
    /\ c.queue # <<>>
    /\ Head(c.queue).kind = "complete"
    /\ c2.queue = Tail(c.queue)

\* The sessions that committed and whose completion notification is not yet
\* handled, oldest first: the session's mode, the value it committed and
\* the position (from 1) it wrote in the Sample sequence, 0 when it wrote
\* none.
NextDone(w2) ==
    LET l == w2.log
        d == IF CompletionHandled(core, w2.core) THEN Tail(hist.done)
             ELSE hist.done
    IN  IF Has(l, "committed")
        THEN Append(d, [zeroing |-> core.setting_zero_sample,
                        at |-> IF core.setting_zero_sample THEN 0
                               ELSE IF ~core.replacing_sample
                               THEN Len(w2.core.samples)
                               ELSE IF core.replacing_sample_index
                                         \in 0..(Len(core.samples) - 1)
                               THEN core.replacing_sample_index + 1
                               ELSE 0,
                        y |-> SessionResult(
                                  Append(core.buffer, Adjusted(core, l.arg)),
                                  core.outliers)])
        ELSE d

\* The notification delivered last.
NextDelivered(w2) ==
    IF w2.log.delivered # NothingDelivered THEN w2.log.delivered
    ELSE hist.delivered

\* imports: for every surface map cell, the imports into it since it was
\* last cleared; a cell without imports is not in the domain.
NextImports(w2) ==
    LET r == dlg.selected_row
        row == selectedIndexes(dlg)
        n == Min(Len(mw.table), dlg.cols)
        Count(key) == IF key \in DOMAIN hist.imports
                      THEN hist.imports[key] ELSE 0
    IN  IF Has(w2.log, "import") /\ ~Has(w2.log, "warning")
        THEN [key \in (DOMAIN hist.imports) \cup {<<r, i>> : i \in 0..(n - 1)}
                |-> IF key[1] = r /\ key[2] < n
                    THEN Count(key) + 1 ELSE Count(key)]
        ELSE IF Has(w2.log, "cleared")
        THEN [key \in {k \in DOMAIN hist.imports :
                          ~(k[1] = row /\ k[2] < dlg.cols)}
                |-> hist.imports[key]]
        ELSE hist.imports

NextHist(w2) ==
    [session |-> NextSession(w2), run |-> NextRun(w2), done |-> NextDone(w2),
     delivered |-> NextDelivered(w2), imports |-> NextImports(w2)]

Step(w2) ==
    /\ mw' = w2.mw
    /\ core' = w2.core
    /\ cyc' = w2.cyc
    /\ log' = w2.log
    /\ hist' = NextHist(w2)
    /\ viz' = w2.viz
    /\ dlg' = w2.dlg

\* ------------------------------------------------------------------ Init
Init ==
    /\ mw = [zero_btn |-> TRUE, sample_btn |-> FALSE, replace_btn |-> FALSE,
             delete_btn |-> FALSE, setting_zero |-> FALSE,
             replace_sample |-> FALSE, table_selected_index |-> 0,
             table |-> <<>>, currentRow |-> -1, conns |-> 0]
    /\ \E n \in 1..MaxSubsamples :
         core = [samples |-> <<>>, zero |-> 0, zero_set |-> FALSE,
                 state |-> "Idle", setting_zero_sample |-> FALSE,
                 replacing_sample |-> FALSE, replacing_sample_index |-> 0,
                 buffer |-> <<>>, target_count |-> 0, subsamples |-> n,
                 outliers |-> DefaultOutliers, queue |-> <<>>, active |-> 0]
    /\ cyc = [cycle_time |-> DefaultCycleTime,
              total_duration |-> DefaultDuration,
              interval_ms |-> 0, timer_active |-> FALSE, elapsed_cycles |-> 0,
              pb_start |-> TRUE, pb_stop |-> FALSE]
    /\ log = EmptyLog
    /\ hist = [session |-> NoSession,
               run |-> [triggers |-> 0, max |-> 0, clean |-> FALSE,
                        stopped |-> "never"],
               done |-> <<>>, delivered |-> NothingDelivered,
               imports |-> NoCells]
    /\ viz = [slider |-> 0, pos |-> 0, plot |-> NoPlot]
    /\ dlg = [selected_row |-> NoRow, rows |-> DefaultPlate,
              cols |-> DefaultPlate, measurement_data |-> NoCells,
              visual |-> NoCells, data_table |-> NoCells]

\* --------------------------------------------------------------- actions
Room == Len(core.samples) < MaxSamples

ZeroClicked ==
    /\ mw.zero_btn
    /\ Step(zero_btn_cmd(Begin))

SampleClicked ==
    /\ mw.sample_btn
    /\ Room
    /\ Step(sample_btn_cmd(Begin))

ReplaceClicked ==
    /\ mw.replace_btn
    /\ Step(replace_btn_cmd(Begin))

DeleteClicked ==
    /\ mw.delete_btn
    /\ \E choice \in {"selected", "all", "cancel"} :
         Step(delete_btn_cmd(Begin, choice))

ResetClicked ==
    \E confirm \in BOOLEAN :
        Step(reset_sample_table(Begin, confirm))

RowSelected ==
    \E r \in 0..(Len(mw.table) - 1) :
        /\ r # mw.currentRow
        /\ Step([Begin EXCEPT !.mw.currentRow = r])

SubsamplesFrom(S) ==
    \E n \in S :
        /\ n # core.subsamples
        /\ Step([Begin EXCEPT !.core.subsamples = n])

SubsamplesChanged == SubsamplesFrom(1..MaxSubsamples)

SubsamplesWide == SubsamplesFrom(1..MaxWideSubsamples)

OutliersChanged ==
    \E pct \in 0..MaxOutliers :
        /\ pct # core.outliers
        /\ Step([Begin EXCEPT !.core.outliers = pct])

SocketServerOpened ==
    /\ mw.conns < MaxOpen
    /\ Step(socket_server_action(Begin))

RemoteTakeSample ==
    /\ mw.conns >= 1
    /\ Room
    /\ Step(remote_command(Begin, "TAKE_SAMPLE"))

RemoteZero ==
    /\ mw.conns >= 1
    /\ Step(remote_command(Begin, "ZERO"))

\* A reading is consumed while a session is Accumulating (and the queue of
\* undelivered notifications has room for what the reading adds).
FeedEnabled ==
    /\ core.state = "Accumulating"
    /\ Len(core.queue) + (IF Len(core.buffer) + 1 < core.target_count
                          THEN 1 ELSE 2) <= MaxQueue

FeedFrom(S) ==
    /\ FeedEnabled
    /\ \E r \in S :
         Step(sample_in([Begin EXCEPT !.log.arg = r], r))

Feed == FeedFrom(Readings)

\* Readings that differ from one session to the next.
FeedWide == FeedFrom(1..MaxWideReading)

FeedNoSignal ==
    /\ core.state = "Accumulating"
    /\ Step([sample_in(Begin, NoSignal) EXCEPT !.log.results = <<"NoSignal">>])

CameraLost ==
    /\ core.state = "Accumulating"
    /\ Step(set_camera(Begin))

\* Variant: the notification queued last is delivered first.
Deliver_lifo ==
    /\ core.queue # <<>>
    /\ LET n == core.queue[Len(core.queue)]
           w0 == [Begin EXCEPT
                    !.core.queue = SubSeq(core.queue, 1, Len(core.queue) - 1),
                    !.log.delivered = n]
       IN  Step(IF n.kind = "complete" THEN on_sample_complete(w0) ELSE w0)

\* The UI thread handles the notification at the head of the queue:
\* subsample_progress_update only rewrites a button's text.
Deliver ==
    /\ core.queue # <<>>
    /\ LET n == Head(core.queue)
           w0 == [Begin EXCEPT !.core.queue = Tail(core.queue),
                               !.log.delivered = n]
       IN  Step(IF n.kind = "complete" THEN on_sample_complete(w0) ELSE w0)

\* Another display unit is chosen: the core announces it and the table is
\* rebuilt from the Sample sequence.
UnitsChanged ==
    Step(update_table([Begin EXCEPT !.log.results = <<"units">>]))

CycleTimeChanged ==
    \E v \in SpinMin..MaxCycleTime :
        /\ v # cyc.cycle_time
        /\ Step([Begin EXCEPT !.cyc.cycle_time = v,
                               !.log.results = <<"edited">>])

TotalDurationChanged ==
    \E v \in SpinMin..MaxDuration :
        /\ v # cyc.total_duration
        /\ Step([Begin EXCEPT !.cyc.total_duration = v,
                               !.log.results = <<"edited">>])

\* Variant: a spin box without its minimum.
spin_bound_nomin(x) == Min(SpinMax, x)

\* QSpinBox keeps its value within [minimum, maximum].
spin_bound(x) == Max(SpinMin, Min(SpinMax, x))

\* Values offered to a spin box: around both ends of its range.
Offered == {0, SpinMin - 1, SpinMin, SpinMax, SpinMax + 1}

CycleTimeSet ==
    \E x \in Offered :
        /\ spin_bound(x) # cyc.cycle_time
        /\ Step([Begin EXCEPT !.cyc.cycle_time = spin_bound(x),
                               !.log.results = <<"edited">>])

TotalDurationSet ==
    \E x \in Offered :
        /\ spin_bound(x) # cyc.total_duration
        /\ Step([Begin EXCEPT !.cyc.total_duration = spin_bound(x),
                               !.log.results = <<"edited">>])

StartCycle ==
    /\ cyc.pb_start
    /\ Step(start_cycle(Begin))

TimerTick ==
    /\ cyc.timer_active
    /\ mw.sample_btn => Room
    /\ Step(on_timer_tick(Begin))

StopCycle ==
    /\ cyc.pb_stop
    /\ Step(stop_cycle(Begin))

\* The zero point slider is moved once the table has been redrawn.
ZeroPointChanged ==
    /\ viz.pos = PlotCells
    /\ \E v \in (0 - MaxSlider)..MaxSlider :
         /\ v # viz.slider
         /\ Step(update_zero_point(Begin, v))

PlotNextCell ==
    /\ viz.pos < PlotCells
    /\ \E a \in 0..MaxPlotAvg, lo \in 1..2, hi \in 1..2 :
         Step(plot_next_cell(Begin, a, lo, hi))

\* A row of the surface map's data table is clicked.
PlateRowSelected ==
    \E r \in 0..(Min(dlg.rows, MaxPlateRows) - 1) :
        /\ r # dlg.selected_row
        /\ Step(update_selected_row(Begin, r))

NewPlateCreated ==
    \E named \in BOOLEAN, new_rows \in {MaxPlateRows},
       new_cols \in 1..MaxPlateCols :
        /\ named => (new_rows # dlg.rows \/ new_cols # dlg.cols)
        /\ Step(create_new_plate(Begin, named, new_rows, new_cols))

\* Entries held by a store, over all its cells.
RECURSIVE Stored(_, _)
Stored(store, keys) ==
    IF keys = {} THEN 0
    ELSE LET key == CHOOSE k \in keys : TRUE
         IN  Len(store[key].avg) + Stored(store, keys \ {key})

\* Import Measurement, while the surface map has room.
ImportClicked ==
    /\ Stored(dlg.measurement_data, DOMAIN dlg.measurement_data) < MaxStored
    /\ Step(import_computed_measurement(Begin))

ClearClicked ==
    \E confirm \in BOOLEAN :
        Step(clear_selected_row(Begin, confirm))

Next ==
    \/ ZeroClicked
    \/ SampleClicked
    \/ ReplaceClicked
    \/ DeleteClicked
    \/ ResetClicked
    \/ RowSelected
    \/ SubsamplesChanged
    \/ SocketServerOpened
    \/ RemoteTakeSample
    \/ RemoteZero
    \/ Feed
    \/ FeedNoSignal
    \/ CameraLost
    \/ Deliver

Spec == Init /\ [][Next]_vars

\* The three start commands from every trigger: the buttons, the remote
\* front end and the cyclic scheduler, interleaved with the acquisition task.
NextSched ==
    \/ ZeroClicked
    \/ SampleClicked
    \/ ReplaceClicked
    \/ SocketServerOpened
    \/ RemoteTakeSample
    \/ RemoteZero
    \/ Feed
    \/ FeedNoSignal
    \/ CameraLost
    \/ Deliver
    \/ StartCycle
    \/ TimerTick
    \/ StopCycle

SpecSched == Init /\ [][NextSched]_vars

\* The scheduler dialog on its own: the user edits the two spin boxes and
\* presses Start and Stop while the timer ticks.
NextCycle ==
    \/ CycleTimeChanged
    \/ TotalDurationChanged
    \/ StartCycle
    \/ TimerTick
    \/ StopCycle

SpecCycle == Init /\ [][NextCycle]_vars

\* A remote client that only listens: the operator works the buttons and
\* the socket server reports every completed session.
NextListen ==
    \/ ZeroClicked
    \/ SampleClicked
    \/ ReplaceClicked
    \/ RowSelected
    \/ SocketServerOpened
    \/ FeedWide
    \/ Deliver

SpecListen == Init /\ [][NextListen]_vars

\* Zeroing sessions under every setting of the two sampler spin boxes.
NextTrim ==
    \/ SubsamplesWide
    \/ OutliersChanged
    \/ ZeroClicked
    \/ Feed
    \/ Deliver

SpecTrim == Init /\ [][NextTrim]_vars

\* The scheduler dialog with values offered over the whole range of its
\* spin boxes and beyond.
NextSpin ==
    \/ CycleTimeSet
    \/ TotalDurationSet
    \/ StartCycle
    \/ TimerTick
    \/ StopCycle

SpecSpin == Init /\ [][NextSpin]_vars

\* Samples are taken and imported into the surface map.
NextImport ==
    \/ ZeroClicked
    \/ SampleClicked
    \/ FeedWide
    \/ Deliver
    \/ PlateRowSelected
    \/ NewPlateCreated
    \/ ImportClicked

SpecImport == Init /\ [][NextImport]_vars

\* Samples are imported into the surface map and rows of it are cleared.
NextClear ==
    \/ ZeroClicked
    \/ SampleClicked
    \/ Feed
    \/ Deliver
    \/ PlateRowSelected
    \/ ImportClicked
    \/ ClearClicked

SpecClear == Init /\ [][NextClear]_vars

\* Samples are taken, deleted and the sample table is reset.
NextDelete ==
    \/ ZeroClicked
    \/ SampleClicked
    \/ ReplaceClicked
    \/ DeleteClicked
    \/ UnitsChanged
    \/ ResetClicked
    \/ RowSelected
    \/ Feed
    \/ Deliver

SpecDelete == Init /\ [][NextDelete]_vars

\* The operator edits the Sample sequence: sessions with readings that
\* differ, row selection, replace and delete.
NextEdit ==
    \/ ZeroClicked
    \/ SampleClicked
    \/ ReplaceClicked
    \/ DeleteClicked
    \/ RowSelected
    \/ FeedWide
    \/ Deliver

SpecEdit == Init /\ [][NextEdit]_vars

\* Sessions while the camera stays connected: the frame task keeps
\* delivering readings (the sample worker's slot runs for each of them) and
\* the UI thread's event loop keeps handling the queued notifications.
NextLive ==
    \/ ZeroClicked
    \/ SampleClicked
    \/ ReplaceClicked
    \/ SocketServerOpened
    \/ RemoteTakeSample
    \/ RemoteZero
    \/ Feed
    \/ FeedNoSignal
    \/ Deliver

\* Weak fairness of Feed and of Deliver, WF_vars(Feed) and WF_vars(Deliver),
\* written out with each action's guard as its enabling condition.
FairFeed == []<>(~FeedEnabled) \/ []<><<Feed>>_vars

FairDeliver == []<>(core.queue = <<>>) \/ []<><<Deliver>>_vars

SpecLive == Init /\ [][NextLive]_vars /\ FairFeed /\ FairDeliver

\* The candlestick table on its own: the slider is moved and the table
\* redrawn cell by cell.
NextPlot ==
    \/ ZeroPointChanged
    \/ PlotNextCell

SpecPlot == Init /\ [][NextPlot]_vars

\* ================================================================ claims
Accumulating == core.state = "Accumulating"

OnlyConflicts(l) ==
    /\ l.results # <<>>
    /\ \A i \in 1..Len(l.results) : l.results[i] = "AcquisitionConflict"

ManualStop(l) == Has(l, "stop_cycle") /\ l.triggers = 0

FloorCycles == cyc.total_duration \div cyc.cycle_time

\* C1: under every interleaving of button commands, scheduler triggers and
\* remote commands at most one acquisition session is Accumulating; a start
\* command arriving while a session is Accumulating starts no second one.
C1_AtMostOneAccumulating ==
    /\ core.active <= 1
    /\ Accumulating <=> core.active = 1

C1_Witness ==
    /\ Has(log, "AcquisitionConflict")
    /\ Accumulating
    /\ core.active = 1

\* C2: a start command issued while a session is Accumulating is rejected
\* as AcquisitionConflict and changes nothing: the session's mode, buffer
\* and target_count, the Sample sequence and the ZeroReference stay as they
\* were.
C2_RejectedStartChangesNothing ==
    [][OnlyConflicts(log') =>
         /\ core'.setting_zero_sample = core.setting_zero_sample
         /\ core'.replacing_sample = core.replacing_sample
         /\ core'.buffer = core.buffer
         /\ core'.target_count = core.target_count
         /\ core'.samples = core.samples
         /\ core'.zero = core.zero
         /\ core'.zero_set = core.zero_set]_vars

\* C3: the Sample sequence is mutated only when a session commits or by an
\* explicit delete; issuing a Zero, Take Sample or Replace command leaves
\* it as it was.
C3_MutatedOnlyAtCommitOrDelete ==
    [][core'.samples # core.samples =>
         Has(log', "committed") \/ Has(log', "deleted")]_vars

\* C4: when the camera is lost while a session is Accumulating the session
\* aborts with AcquisitionError, the buffer is discarded, the session is
\* Idle again, and the Sample sequence and the ZeroReference are what they
\* were before the command that started the session.
C4_AbortLeavesCommittedData ==
    Has(log, "AcquisitionError") =>
        /\ core.state = "Idle"
        /\ core.buffer = <<>>
        /\ core.samples = hist.session.samplesBefore
        /\ <<core.zero_set, core.zero>> = hist.session.zeroBefore

\* C5: when a session started by the Zero command completes, the Sample
\* sequence is empty, whatever it held before the command, and the
\* ZeroReference is that session's result.
C5_ZeroingClearsSamples ==
    [][(Has(log', "committed") /\ hist'.session.startedBy = "zero") =>
         /\ core'.samples = <<>>
         /\ core'.zero_set
         /\ core'.zero = SessionResult(Append(core.buffer, log'.arg),
                                       core.outliers)]_vars

C5_Witness ==
    /\ Has(log, "committed")
    /\ hist.session.startedBy = "zero"
    /\ hist.session.samplesBefore # <<>>
    /\ core.samples = <<>>
    /\ core.zero_set

\* C6 as stated: a run whose settings are not edited and that is not
\* stopped by hand emits exactly floor(D / I) triggers and then stops.
C6_ExactlyFloorTriggers ==
    (hist.run.clean /\ hist.run.stopped = "auto") =>
        hist.run.triggers = FloorCycles

\* C6 amended: such a run emits exactly max(1, floor(D / I)) triggers: the
\* first tick always fires; while the timer runs fewer have fired, and once
\* it has stopped the timer is inactive until the next start_cycle.
C6_TriggersUntilAutoStop ==
    /\ (hist.run.clean /\ hist.run.stopped = "auto") =>
           hist.run.triggers = Max(1, FloorCycles)
    /\ (hist.run.clean /\ hist.run.stopped = "running") =>
           hist.run.triggers < Max(1, FloorCycles)
    /\ cyc.timer_active <=> hist.run.stopped = "running"

C6_Witness ==
    /\ hist.run.clean
    /\ hist.run.stopped = "auto"
    /\ cyc.total_duration % cyc.cycle_time # 0
    /\ hist.run.triggers = 3

\* C7 as stated: the number of triggers of a run is fixed by the settings
\* read when start_cycle ran (here with the first tick counted, as in C6),
\* whatever is edited while the timer is running.
C7_CountFixedOnStart ==
    hist.run.stopped = "auto" => hist.run.triggers = Max(1, hist.run.max)

\* C7 amended: only the timer interval is fixed on start; every tick reads
\* both settings again and stops the timer exactly when the cycles elapsed
\* reach floor(total duration / cycle time) of the values at that tick, and
\* editing a setting neither restarts nor stops the timer.
C7_RecomputedEachTick ==
    [][/\ log'.triggers = 1 =>
            /\ cyc'.elapsed_cycles = cyc.elapsed_cycles + 1
            /\ cyc'.timer_active <=> cyc'.elapsed_cycles < FloorCycles
            /\ cyc'.interval_ms = cyc.interval_ms
       /\ Has(log', "edited") =>
            /\ cyc'.interval_ms = cyc.interval_ms
            /\ cyc'.timer_active = cyc.timer_active
            /\ cyc'.elapsed_cycles = cyc.elapsed_cycles
       /\ Has(log', "start_cycle") =>
            cyc'.interval_ms = 1000 * cyc.cycle_time]_vars

C7_Witness ==
    /\ hist.run.stopped = "auto"
    /\ ~hist.run.clean
    /\ hist.run.triggers # Max(1, hist.run.max)

C9_SampleEnabledOnlyAfterZero ==
    mw.sample_btn => core.zero_set

\* C10: stop_cycle pressed by the user leaves the core (session, Sample
\* sequence, ZeroReference) and both routing flags as they were, and no
\* trigger is emitted after it until the next start_cycle.
C10_StopCycleFrame ==
    [][/\ ManualStop(log') =>
            /\ core' = core
            /\ mw'.setting_zero = mw.setting_zero
            /\ mw'.replace_sample = mw.replace_sample
       /\ log'.triggers > 0 => hist.run.stopped = "running"]_vars

C10_Witness ==
    /\ ManualStop(log)
    /\ Accumulating
    /\ core.buffer # <<>>

\* --------------------------------------------------------- C11 .. C20
CompletePending ==
    \E i \in 1..Len(core.queue) : core.queue[i].kind = "complete"

\* A session is pending from its start until its completion is handled.
SessionPending == Accumulating \/ CompletePending

TriggersDisabled == ~mw.zero_btn /\ ~mw.sample_btn /\ ~mw.replace_btn

TriggersEnabled == mw.zero_btn /\ mw.sample_btn /\ mw.replace_btn

\* C11: from the moment a Zero, Take Sample or Replace command is issued
\* until that session's completion notification is handled the three
\* triggers are all disabled, and handling the completion notification
\* enables all three again.
C11_TriggersDisabledUntilCompletion ==
    [][/\ log'.issued # <<>> => TriggersDisabled'
       /\ SessionPending' => TriggersDisabled'
       /\ CompletionHandled(core, core') => TriggersEnabled']_vars

\* The message socket_server_sample_complete owes for a committed session.
OwedMessage(d) ==
    IF d.zeroing THEN <<"ZERO_COMPLETE", 0>> ELSE <<"SAMPLE", d.y>>

\* C12: when a session's completion is handled every outbound message is
\* ZERO_COMPLETE if and only if that session was a zeroing session, and
\* otherwise SAMPLE with the y of the Sample the session committed, appended
\* or written at replace_index.
C12_MessageCarriesCommittedSample ==
    [][(/\ CompletionHandled(core, core')
        /\ Head(hist.done).zeroing \/ Head(hist.done).at > 0) =>
         \A i \in 1..Len(log'.sent) :
             log'.sent[i] = OwedMessage(Head(hist.done))]_vars

\* C13: outlier rejection never empties the buffer: for every configurable
\* target_count N and outlier_pct p at least one reading is averaged, and
\* for p < 50 exactly N - 2 * floor(N * p / 100) readings are, at least 1.
C13_OneReadingSurvives ==
    [][Has(log', "committed") =>
         /\ log'.kept >= 1
         /\ core.outliers < 50 =>
                log'.kept = core.target_count
                            - 2 * ((core.target_count * core.outliers) \div 100)]_vars

C13_Witness ==
    /\ Has(log, "committed")
    /\ core.target_count = 5
    /\ core.outliers = MaxOutliers
    /\ log.kept = 1

\* shim and scrape follow the convention for a value and its reference.
Convention(value, reference, shim, scrape) ==
    LET error == value - reference
    IN  /\ shim = Max(0, 0 - error)
        /\ scrape = Max(0, error)
        /\ shim >= 0
        /\ scrape >= 0
        /\ shim = 0 \/ scrape = 0
        /\ scrape - shim = error

Progress(n, total) == [kind |-> "progress", n |-> n, total |-> total]

Complete == [kind |-> "complete", n |-> 0, total |-> 0]

\* C15: while a session is Accumulating each accepted reading lengthens the
\* buffer by one and emits one progress notification (len(buffer),
\* target_count); a no-signal sentinel changes neither the buffer nor the
\* count and emits nothing; progress is delivered in increasing order
\* 1..target_count and the completion after the last progress.
C15_ProgressInOrder ==
    [][/\ log'.arg # 0 =>
            LET n == Len(core.buffer) + 1
            IN  /\ n <= core.target_count
                /\ core'.target_count = core.target_count
                /\ n < core.target_count =>
                       /\ Len(core'.buffer) = n
                       /\ core'.queue = Append(core.queue,
                                               Progress(n, core.target_count))
                /\ n = core.target_count =>
                       core'.queue = core.queue \o
                           <<Progress(n, core.target_count), Complete>>
       /\ Has(log', "NoSignal") =>
            /\ core'.buffer = core.buffer
            /\ core'.target_count = core.target_count
            /\ core'.state = core.state
            /\ core'.queue = core.queue
       /\ log'.delivered.kind = "progress" =>
            /\ log'.delivered.n \in 1..log'.delivered.total
            /\ \/ log'.delivered.n = 1
               \/ hist.delivered = Progress(log'.delivered.n - 1,
                                            log'.delivered.total)
       /\ log'.delivered.kind = "complete" =>
            /\ hist.delivered.kind = "progress"
            /\ hist.delivered.n = hist.delivered.total]_vars

C15_Witness ==
    /\ log.delivered = Progress(2, 2)
    /\ core.queue = <<Complete>>
    /\ core.state = "Idle"

\* C16: while the frame task keeps delivering numeric readings every
\* started session commits and is Idle again, exactly when the
\* target_count-th accepted reading arrives, and its completion
\* notification enables the triggers again; sentinels alone never end a
\* session and nothing else does.
C16_SessionCompletes ==
    /\ Accumulating ~> (Has(log, "committed") /\ core.state = "Idle")
    /\ CompletePending ~> (log.delivered = Complete /\ TriggersEnabled)
    /\ [][/\ Has(log', "committed") <=>
               (/\ Accumulating
                /\ log'.arg # 0
                /\ Len(core.buffer) + 1 = core.target_count)
          /\ (Accumulating /\ ~Accumulating') => Has(log', "committed")
          /\ Has(log', "NoSignal") => (Accumulating' /\ core' = core)]_vars

C16_Witness ==
    /\ log.delivered = Complete
    /\ TriggersEnabled
    /\ core.state = "Idle"
    /\ core.queue = <<>>
    /\ core.samples # <<>>

\* s2 is s with the element at position i (from 1) removed.
Removed(s, s2, i) ==
    /\ i \in 1..Len(s)
    /\ Len(s2) = Len(s) - 1
    /\ \A j \in 1..Len(s2) : s2[j] = IF j < i THEN s[j] ELSE s[j + 1]

\* s2 is s except possibly at position i (from 1).
ReplacedAt(s, s2, i) ==
    /\ Len(s2) = Len(s)
    /\ \A j \in 1..Len(s) : j # i => s2[j] = s[j]

\* C17: the Sample sequence is never reordered: every change of it is an
\* append at the end, the removal of one element, a change of one element
\* in place, or the removal of all; Delete Selected on index r removes
\* exactly element r, and a replace at replace_index keeps the length and
\* changes only that element.
C17_NeverReordered ==
    [][/\ core'.samples # core.samples =>
            \/ core'.samples = <<>>
            \/ /\ Len(core'.samples) = Len(core.samples) + 1
               /\ SubSeq(core'.samples, 1, Len(core.samples)) = core.samples
            \/ \E i \in 1..Len(core.samples) :
                   Removed(core.samples, core'.samples, i)
            \/ \E i \in 1..Len(core.samples) :
                   ReplacedAt(core.samples, core'.samples, i)
       /\ (/\ Has(log', "deleted")
           /\ Has(log', "selected")
           /\ mw.currentRow \in 0..(Len(core.samples) - 1)) =>
            Removed(core.samples, core'.samples, mw.currentRow + 1)
       /\ (/\ Has(log', "committed")
           /\ core.replacing_sample
           /\ ~core.setting_zero_sample) =>
            ReplacedAt(core.samples, core'.samples,
                       core.replacing_sample_index + 1)]_vars

C17_Witness ==
    /\ Has(log, "deleted")
    /\ Has(log, "selected")
    /\ Len(core.samples) = 1
    /\ core.samples # <<0>>
    /\ core.zero_set

\* C18: in every reachable state of the scheduler dialog the cycle time and
\* the total duration are within [5, 3600], so on_timer_tick never divides
\* by zero and max_cycles is between 0 and 720.
C18_SpinBoxesInRange ==
    /\ cyc.cycle_time \in SpinMin..SpinMax
    /\ cyc.total_duration \in SpinMin..SpinMax
    /\ cyc.cycle_time # 0
    /\ FloorCycles \in 0..720

C18_Witness ==
    /\ log.triggers = 1
    /\ cyc.cycle_time = SpinMin
    /\ cyc.total_duration = SpinMax
    /\ FloorCycles = 720
    /\ cyc.elapsed_cycles = 2
    /\ cyc.timer_active

\* C19: import_computed_measurement with no surface map row selected
\* reports an error and changes neither the dialog's measurement_data, nor
\* the visual table's measurement_data, nor any data_table cell.
C19_NoRowNoImport ==
    [][(dlg.selected_row = NoRow /\ Has(log', "import"))
       => /\ Has(log', "warning")
          /\ dlg'.measurement_data = dlg.measurement_data
          /\ dlg'.visual = dlg.visual
          /\ dlg'.data_table = dlg.data_table]_vars

C19_Witness ==
    /\ Has(log, "import")
    /\ Has(log, "warning")
    /\ dlg.selected_row = NoRow
    /\ Len(mw.table) = MaxSamples

Fields == {"avg", "min", "max", "shim_avg", "shim_min", "shim_max",
           "scrape_avg", "scrape_min", "scrape_max"}

\* The key is held by both stores or by neither, with the same contents.
Untouched(store, store2, key) ==
    /\ key \in DOMAIN store <=> key \in DOMAIN store2
    /\ key \in DOMAIN store => store2[key] = store[key]

\* The cell gained exactly one entry, the measured value y, in every list.
OneMore(store, store2, key, y) ==
    LET old == IF key \in DOMAIN store THEN store[key] ELSE EmptyCell
    IN  /\ key \in DOMAIN store2
        /\ \A f \in Fields :
              /\ Len(store2[key][f]) = Len(old[f]) + 1
              /\ SubSeq(store2[key][f], 1, Len(old[f])) = old[f]
        /\ store2[key].avg = Append(old.avg, y)

\* C20: import_computed_measurement with selected row r, cols columns and a
\* sample table of m rows appends exactly one entry, sample i, to cell (r, i)
\* of the dialog store and of the visual store for every i < min(m, cols)
\* (every measured value is present), and leaves every other cell unchanged.
C20_ImportWritesSelectedRow ==
    [][(dlg.selected_row # NoRow /\ Has(log', "import"))
       => LET r == dlg.selected_row
              k == Min(Len(mw.table), dlg.cols)
              keys == {<<r, i>> : i \in 0..(k - 1)}
                      \cup DOMAIN dlg.measurement_data
                      \cup DOMAIN dlg'.measurement_data
                      \cup DOMAIN dlg.visual \cup DOMAIN dlg'.visual
                      \cup DOMAIN dlg.data_table \cup DOMAIN dlg'.data_table
          IN  \A key \in keys :
                IF key[1] = r /\ key[2] < k
                THEN /\ OneMore(dlg.measurement_data, dlg'.measurement_data,
                                key, mw.table[key[2] + 1])
                     /\ OneMore(dlg.visual, dlg'.visual, key,
                                mw.table[key[2] + 1])
                     /\ InTable(dlg, key)
                          => /\ key \in DOMAIN dlg'.data_table
                             /\ dlg'.data_table[key].count
                                  = Len(dlg'.measurement_data[key].avg)
                ELSE /\ Untouched(dlg.measurement_data,
                                  dlg'.measurement_data, key)
                     /\ Untouched(dlg.visual, dlg'.visual, key)
                     /\ Untouched(dlg.data_table, dlg'.data_table, key)]_vars

C20_Witness ==
    /\ Has(log, "import")
    /\ dlg.selected_row = 1
    /\ dlg.cols = 1
    /\ Len(mw.table) = 2
    /\ DOMAIN dlg.measurement_data = {<<0, 0>>, <<1, 0>>}
    /\ DOMAIN dlg.visual = {<<0, 0>>, <<1, 0>>}
    /\ dlg.visual[<<1, 0>>].avg = <<mw.table[1]>>
    /\ mw.table[1] # mw.table[2]

\* C21: after the user confirms clearing row r no measurement data remains
\* for any cell (r, c) in the visual store or in the dialog store, which
\* feeds the displayed count and average, and the cells of other rows are
\* unchanged in both; if the user declines, nothing changes.
C21_ClearsOnlySelectedRow ==
    [][/\ Has(log', "cleared")
          => LET r == selectedIndexes(dlg)
                 keys == {<<r, c>> : c \in 0..(dlg.cols - 1)}
                         \cup DOMAIN dlg.measurement_data
                         \cup DOMAIN dlg.visual
             IN  \A key \in keys :
                   IF key[1] = r /\ key[2] < dlg.cols
                   THEN /\ key \notin DOMAIN dlg'.visual
                        /\ key \notin DOMAIN dlg'.measurement_data
                   ELSE /\ Untouched(dlg.visual, dlg'.visual, key)
                        /\ Untouched(dlg.measurement_data,
                                     dlg'.measurement_data, key)
       /\ Has(log', "declined") => dlg' = dlg]_vars

ImportsInto(key) ==
    IF key \in DOMAIN hist.imports THEN hist.imports[key] ELSE 0

Consistent(store) ==
    \A key \in DOMAIN store :
        \A f \in Fields :
            /\ f \in DOMAIN store[key]
            /\ Len(store[key][f]) = ImportsInto(key)

\* C22: in every reachable state, for every cell key of the dialog store and
\* of the visual store, all nine lists exist and have the same length, the
\* number of imports into that cell since it was last cleared.
C22_NineListsCountImports ==
    /\ Consistent(dlg.measurement_data)
    /\ Consistent(dlg.visual)

\* C23: delete_btn_cmd takes its "no samples to delete" outcome, changing
\* no state, if and only if the Sample sequence is empty; otherwise the
\* choices are offered, and Delete All leaves the Sample sequence empty.
C23_NoSamplesIffEmpty ==
    [][(Has(log', "NoSamples") \/ Has(log', "deleted") \/ Has(log', "offered"))
       => /\ Has(log', "NoSamples") <=> core.samples = <<>>
          /\ Has(log', "NoSamples") => (mw' = mw /\ core' = core)
          /\ (Has(log', "deleted") /\ Has(log', "all"))
               => core'.samples = <<>>]_vars

\* Every issued command has been handled up to its completion.
Handled == core.state = "Idle" /\ core.queue = <<>>

\* C24: after any operation has finished being handled the sample table has
\* len(core.samples) rows and row i shows sample i.
C24_TableShowsSamples ==
    Handled
    => /\ Len(mw.table) = Len(core.samples)
       /\ \A i \in 1..Len(mw.table) :
             extract_numeric_value(TableUnit(mw.table[i])) = core.samples[i]

\* C25: a replacing session targets an existing sample from the Replace
\* command until its commit: 0 <= replace_index < len(Sample sequence).
C25_ReplaceTargetsExistingSample ==
    (core.state = "Accumulating" /\ core.replacing_sample)
    => core.replacing_sample_index \in 0..(Len(core.samples) - 1)

\* C26: each inbound remote TAKE_SAMPLE or ZERO command causes exactly one
\* start command, and each completed session exactly one outbound message,
\* however often the socket server dialog has been opened.
C26_OneStartOneMessage ==
    [][/\ log'.issued # <<>> => Len(log'.issued) = 1
       /\ (CompletionHandled(core, core') /\ mw.conns >= 1)
            => Len(log'.sent) = 1]_vars

\* C27: every start command made by sample_btn_cmd or replace_btn_cmd
\* passes setting_zero = False and every one made by zero_btn_cmd passes
\* setting_zero = True, also for a remote TAKE_SAMPLE that arrives while a
\* zeroing session is in flight.
C27_ModeFollowsCommand ==
    [][/\ Len(log'.modes) = Len(log'.issued)
       /\ \A i \in 1..Len(log'.issued) :
             log'.modes[i] = (log'.issued[i] = "zero")]_vars

FlagsDown(m) == ~m.setting_zero /\ ~m.replace_sample

====
